---------------------------- MODULE Spec2Model ----------------------------
(***************************************************************************)
(* A model of the dice engine of src/dice.py: the notation parsers, the    *)
(* two roll evaluators, the advantage/disadvantage selector and the        *)
(* character-stat generator.                                               *)
(*                                                                         *)
(* A Python str is a sequence of one-character strings, so that the        *)
(* regular expressions, str.split, str.strip, str.replace and int() of the *)
(* source are computed character by character.  The characters are those   *)
(* of Digit, Sign, Space and the letters "d", "D" and "x" ("x" stands for  *)
(* any character that is no digit, sign, whitespace or letter d).          *)
(***************************************************************************)
EXTENDS Integers, Sequences, FiniteSets

VARIABLES
    fn,            \* the function of dice.py under evaluation
    arg,           \* its str argument (expression, args or notation)
    pc,            \* the position in that function
    call,          \* which of the two roll_dice calls of an advantage roll
    tokens,        \* roll_dice / roll_dmg: the split token list
    pos,           \* index of the next token of the for loop
    dice_pools,    \* roll_dice: (notation, rolls) per dice term
    components,    \* roll_dmg: (notation, rolls, subtotal) per dice term
    modifier,      \* roll_dice / roll_dmg: net flat modifier
    total,         \* roll_dmg: running total
    current_sign,  \* roll_dice / roll_dmg: pending sign
    roll1,         \* roll_with_(dis)advantage: the first RollResult
    stats,         \* roll_character_stats: the list built so far
    rng,           \* roll_character_stats: the die source's coming outcomes
    draws,         \* number of roll_single_die calls made so far
    ret            \* the value returned, or the error raised

vars == <<fn, arg, pc, call, tokens, pos, dice_pools, components, modifier,
          total, current_sign, roll1, stats, rng, draws, ret>>

(***************************************************************************)
(* Bounds of the model.                                                    *)
(***************************************************************************)
MaxTerms == 2       \* terms of an expression given to the evaluators
MaxArgsLen == 5     \* characters of the args of a command
MaxNotationLen == 6 \* characters of a notation given to parse_dice_only
TapePeriod == 5     \* period of the die outcomes of roll_character_stats

None == <<>>

(***************************************************************************)
(* Characters and the str methods the source uses.                         *)
(***************************************************************************)
Digit == {"0", "1", "2", "3", "4", "5", "6", "7", "8", "9"}
Sign == {"+", "-"}
Space == {" ", "\t", "\n"}

DigitVal(c) ==
    CASE c = "0" -> 0 [] c = "1" -> 1 [] c = "2" -> 2 [] c = "3" -> 3
      [] c = "4" -> 4 [] c = "5" -> 5 [] c = "6" -> 6 [] c = "7" -> 7
      [] c = "8" -> 8 [] c = "9" -> 9

Str(chars, n) == UNION {[1..k -> chars] : k \in 0..n}

AllDigits(s) == \A i \in 1..Len(s) : s[i] \in Digit

\* str.isdigit()
isdigit(s) == Len(s) > 0 /\ AllDigits(s)

\* int() of a string of decimal digits
RECURSIVE DigitsToInt(_)
DigitsToInt(s) ==
    IF Len(s) = 0 THEN 0
    ELSE 10 * DigitsToInt(SubSeq(s, 1, Len(s) - 1)) + DigitVal(s[Len(s)])

\* str.lower()
lower(s) == [i \in 1..Len(s) |-> IF s[i] = "D" THEN "d" ELSE s[i]]

\* c in s
Contains(s, c) == \E i \in 1..Len(s) : s[i] = c

\* str.strip()
RECURSIVE lstrip(_)
lstrip(s) == IF Len(s) > 0 /\ s[1] \in Space THEN lstrip(Tail(s)) ELSE s

RECURSIVE rstrip(_)
rstrip(s) ==
    IF Len(s) > 0 /\ s[Len(s)] \in Space
    THEN rstrip(SubSeq(s, 1, Len(s) - 1)) ELSE s

strip(s) == rstrip(lstrip(s))

\* str.replace(" ", ""): the space character alone, no other whitespace
RECURSIVE replace_spaces(_)
replace_spaces(s) ==
    IF Len(s) = 0 THEN <<>>
    ELSE (IF s[1] = " " THEN <<>> ELSE <<s[1]>>) \o replace_spaces(Tail(s))

\* str.split(): the maximal runs of non-whitespace characters
RECURSIVE SplitFrom(_, _)
SplitFrom(s, cur) ==
    IF Len(s) = 0 THEN (IF Len(cur) = 0 THEN <<>> ELSE <<cur>>)
    ELSE IF s[1] \in Space
         THEN (IF Len(cur) = 0 THEN <<>> ELSE <<cur>>) \o SplitFrom(Tail(s), <<>>)
         ELSE SplitFrom(Tail(s), Append(cur, s[1]))

split(s) == SplitFrom(s, <<>>)

\* "".join(list)
RECURSIVE join(_)
join(list) == IF Len(list) = 0 THEN <<>> ELSE list[1] \o join(Tail(list))

\* sum(list)
RECURSIVE sum(_)
sum(list) == IF Len(list) = 0 THEN 0 ELSE list[1] + sum(Tail(list))

\* The regular expression's "$": the end of the string, or just before a
\* newline that ends the string.
AtDollar(s, i) == i = Len(s) + 1 \/ (i = Len(s) /\ s[i] = "\n")

\* re.sub(r'([+-])', r' \1 ', s)
RECURSIVE SpaceSigns(_)
SpaceSigns(s) ==
    IF Len(s) = 0 THEN <<>>
    ELSE (IF s[1] \in Sign THEN <<" ", s[1], " ">> ELSE <<s[1]>>)
         \o SpaceSigns(Tail(s))

Ok(v) == [ok |-> TRUE, value |-> v]
Err(msg) == [ok |-> FALSE, error |-> msg]


(***************************************************************************)
(* The random die source.                                                  *)
(***************************************************************************)
\* roll_single_die(sides): the outcomes of 1 + secrets.randbelow(sides)
roll_single_die(sides) == {1 + r : r \in 0..(sides - 1)}

(***************************************************************************)
(* parse_dice_only: optional digits, "d", digits, on the lowered and       *)
(* stripped notation.                                                      *)
(***************************************************************************)
\* the longest prefix of s made of digits: what a greedy run of \d takes
RECURSIVE LeadingDigits(_)
LeadingDigits(s) ==
    IF Len(s) > 0 /\ s[1] \in Digit THEN <<s[1]>> \o LeadingDigits(Tail(s))
    ELSE <<>>

\* parse_dice_only without the lower limit of the count
parse_dice_only_CountFromZero(notation0) ==
    LET notation == strip(lower(notation0))
        count_str == LeadingDigits(notation)
        after == SubSeq(notation, Len(count_str) + 1, Len(notation))
        sides_str == IF Len(after) > 0 THEN LeadingDigits(Tail(after)) ELSE <<>>
        match == /\ Len(after) > 0
                 /\ after[1] = "d"
                 /\ Len(sides_str) > 0
                 /\ AtDollar(Tail(after), Len(sides_str) + 1)
        dice_count == IF Len(count_str) > 0 THEN DigitsToInt(count_str) ELSE 1
        dice_sides == DigitsToInt(sides_str)
    IN  IF ~match THEN Err("Invalid dice notation")
        ELSE IF dice_count > 100
             THEN Err("Dice count must be 1-100")
        ELSE IF dice_sides < 1 \/ dice_sides > 1000
             THEN Err("Dice sides must be 1-1000")
        ELSE Ok(<<dice_count, dice_sides>>)

parse_dice_only(notation0) ==
    LET notation == strip(lower(notation0))
        count_str == LeadingDigits(notation)
        after == SubSeq(notation, Len(count_str) + 1, Len(notation))
        sides_str == IF Len(after) > 0 THEN LeadingDigits(Tail(after)) ELSE <<>>
        match == /\ Len(after) > 0
                 /\ after[1] = "d"
                 /\ Len(sides_str) > 0
                 /\ AtDollar(Tail(after), Len(sides_str) + 1)
        dice_count == IF Len(count_str) > 0 THEN DigitsToInt(count_str) ELSE 1
        dice_sides == DigitsToInt(sides_str)
    IN  IF ~match THEN Err("Invalid dice notation")
        ELSE IF dice_count < 1 \/ dice_count > 100
             THEN Err("Dice count must be 1-100")
        ELSE IF dice_sides < 1 \/ dice_sides > 1000
             THEN Err("Dice sides must be 1-1000")
        ELSE Ok(<<dice_count, dice_sides>>)

(***************************************************************************)
(* roll_dice and roll_dmg, one action per turn of their token loop.        *)
(***************************************************************************)
\* expression.replace(" ", "")
Expression(e) == replace_spaces(e)

\* re.sub(r'([+-])', r' \1 ', expression).split()
Tokenize(e) == split(SpaceSigns(Expression(e)))

\* int(s): whitespace around, an optional sign, decimal digits
int(s0) ==
    LET s == strip(s0)
        signed == Len(s) > 0 /\ s[1] \in Sign
        digits == IF signed THEN Tail(s) ELSE s
    IN  IF ~isdigit(digits) THEN Err("ValueError")
        ELSE IF signed /\ s[1] = "-" THEN Ok(-DigitsToInt(digits))
        ELSE Ok(DigitsToInt(digits))

\* try: int(token) except ValueError: raise ValueError("Invalid token: ...")
IntToken(token) ==
    IF int(token).ok THEN int(token) ELSE Err("Invalid token")

\* the sign a '+' or '-' token leaves pending
SignOf(token) == IF token = <<"-">> THEN -1 ELSE 1

IsSignToken(token) == token = <<"+">> \/ token = <<"-">>
IsDiceToken(token) == ~IsSignToken(token) /\ Contains(lower(token), "d")

RollDiceCallers == {"roll_dice", "roll_with_advantage", "roll_with_disadvantage"}

\* ModifiedRolls with the modifier applied to the first pool alone
ModifiedRolls_FirstPoolOnly(pools, m) ==
    [i \in 1..Len(pools) |->
        [j \in 1..Len(pools[i].rolls) |->
            pools[i].rolls[j] + (IF i = 1 THEN m ELSE 0)]]

\* [r + modifier for r in rolls] for each pool
ModifiedRolls(pools, m) ==
    [i \in 1..Len(pools) |->
        [j \in 1..Len(pools[i].rolls) |-> pools[i].rolls[j] + m]]

RollResult(e, pools, m) ==
    [expression |-> e, dice_pools |-> pools, modifier |-> m,
     modified_rolls |-> ModifiedRolls(pools, m)]

DmgResult(e, comps, m, t) ==
    [expression |-> e, components |-> comps, modifier |-> m, total |-> t]

\* sum(sum(pool) for pool in roll.modified_rolls)
GrandTotal(roll) ==
    sum([i \in 1..Len(roll.modified_rolls) |-> sum(roll.modified_rolls[i])])

Max(a, b) == IF a >= b THEN a ELSE b
Min(a, b) == IF a <= b THEN a ELSE b

\* roll_with_advantage with a tie going to the second roll
roll_with_advantage_SecondOnTie(r1, r2) ==
    LET total1 == GrandTotal(r1)
        total2 == GrandTotal(r2)
        higher == IF total1 > total2 THEN r1 ELSE r2
    IN  <<r1, r2, higher, Max(total1, total2)>>

roll_with_advantage(r1, r2) ==
    LET total1 == GrandTotal(r1)
        total2 == GrandTotal(r2)
        higher == IF total1 >= total2 THEN r1 ELSE r2
    IN  <<r1, r2, higher, Max(total1, total2)>>

roll_with_disadvantage(r1, r2) ==
    LET total1 == GrandTotal(r1)
        total2 == GrandTotal(r2)
        lower_ == IF total1 <= total2 THEN r1 ELSE r2
    IN  <<r1, r2, lower_, Min(total1, total2)>>

\* what the actions of the evaluators leave alone
otherVars == <<stats, rng>>

\* roll_dice, lines 130-138: tokenize and clear the accumulators
RollDiceEnter ==
    /\ fn \in RollDiceCallers
    /\ pc = "call"
    /\ tokens' = Tokenize(arg)
    /\ pos' = 1
    /\ dice_pools' = <<>>
    /\ modifier' = 0
    /\ current_sign' = 1
    /\ pc' = "loop"
    /\ UNCHANGED <<fn, arg, call, components, total, roll1, draws, ret>>
    /\ UNCHANGED otherVars

\* roll_dice, lines 145-148: a '+' or '-' token sets the pending sign
RollDiceSign ==
    /\ fn \in RollDiceCallers
    /\ pc = "loop"
    /\ pos <= Len(tokens)
    /\ IsSignToken(tokens[pos])
    /\ current_sign' = SignOf(tokens[pos])
    /\ pos' = pos + 1
    /\ UNCHANGED <<fn, arg, pc, call, tokens, dice_pools, components, modifier,
                   total, roll1, draws, ret>>
    /\ UNCHANGED otherVars

\* roll_dice, lines 149-153: a dice term is parsed, then rolled at once
RollDiceTerm ==
    /\ fn \in RollDiceCallers
    /\ pc = "loop"
    /\ pos <= Len(tokens)
    /\ IsDiceToken(tokens[pos])
    /\ LET token == tokens[pos]
           parsed == parse_dice_only(token)
       IN  IF ~parsed.ok
           THEN /\ pc' = "error"
                /\ ret' = parsed
                /\ UNCHANGED <<pos, dice_pools, current_sign, draws>>
           ELSE \E rolls \in [1..parsed.value[1] -> roll_single_die(parsed.value[2])] :
                /\ dice_pools' = Append(dice_pools, [notation |-> token, rolls |-> rolls])
                /\ draws' = draws + Len(rolls)
                /\ current_sign' = 1
                /\ pos' = pos + 1
                /\ UNCHANGED <<pc, ret>>
    /\ UNCHANGED <<fn, arg, call, tokens, components, modifier, total, roll1>>
    /\ UNCHANGED otherVars

\* roll_dice, lines 154-160: any other token is a flat integer, or an error
RollDiceInt ==
    /\ fn \in RollDiceCallers
    /\ pc = "loop"
    /\ pos <= Len(tokens)
    /\ ~IsSignToken(tokens[pos])
    /\ ~IsDiceToken(tokens[pos])
    /\ LET value == IntToken(tokens[pos])
       IN  IF ~value.ok
           THEN /\ pc' = "error"
                /\ ret' = value
                /\ UNCHANGED <<pos, modifier, current_sign>>
           ELSE /\ modifier' = modifier + current_sign * value.value
                /\ current_sign' = 1
                /\ pos' = pos + 1
                /\ UNCHANGED <<pc, ret>>
    /\ UNCHANGED <<fn, arg, call, tokens, dice_pools, components, total, roll1, draws>>
    /\ UNCHANGED otherVars

\* roll_dice, lines 162-172, and what its caller does with the result:
\* roll_with_advantage / roll_with_disadvantage call it a second time and select
RollDiceReturn ==
    /\ fn \in RollDiceCallers
    /\ pc = "loop"
    /\ pos > Len(tokens)
    /\ LET result == RollResult(Expression(arg), dice_pools, modifier)
       IN  IF fn = "roll_dice"
           THEN /\ ret' = Ok(result)
                /\ pc' = "done"
                /\ UNCHANGED <<call, roll1>>
           ELSE IF call = 1
           THEN /\ roll1' = result
                /\ call' = 2
                /\ pc' = "call"
                /\ UNCHANGED ret
           ELSE /\ ret' = Ok(IF fn = "roll_with_advantage"
                             THEN roll_with_advantage(roll1, result)
                             ELSE roll_with_disadvantage(roll1, result))
                /\ pc' = "done"
                /\ UNCHANGED <<call, roll1>>
    /\ UNCHANGED <<fn, arg, tokens, pos, dice_pools, components, modifier, total,
                   current_sign, draws>>
    /\ UNCHANGED otherVars

\* roll_dmg, lines 180-188
RollDmgEnter ==
    /\ fn = "roll_dmg"
    /\ pc = "call"
    /\ tokens' = Tokenize(arg)
    /\ pos' = 1
    /\ components' = <<>>
    /\ modifier' = 0
    /\ total' = 0
    /\ current_sign' = 1
    /\ pc' = "loop"
    /\ UNCHANGED <<fn, arg, call, dice_pools, roll1, draws, ret>>
    /\ UNCHANGED otherVars

\* RollDmgSign with a '-' that flips the pending sign instead of setting it
RollDmgSign_Toggle ==
    /\ fn = "roll_dmg"
    /\ pc = "loop"
    /\ pos <= Len(tokens)
    /\ IsSignToken(tokens[pos])
    /\ current_sign' = (IF tokens[pos] = <<"-">> THEN -current_sign ELSE current_sign)
    /\ pos' = pos + 1
    /\ UNCHANGED <<fn, arg, pc, call, tokens, dice_pools, components, modifier,
                   total, roll1, draws, ret>>
    /\ UNCHANGED otherVars

\* roll_dmg, lines 195-198
RollDmgSign ==
    /\ fn = "roll_dmg"
    /\ pc = "loop"
    /\ pos <= Len(tokens)
    /\ IsSignToken(tokens[pos])
    /\ current_sign' = SignOf(tokens[pos])
    /\ pos' = pos + 1
    /\ UNCHANGED <<fn, arg, pc, call, tokens, dice_pools, components, modifier,
                   total, roll1, draws, ret>>
    /\ UNCHANGED otherVars

\* roll_dmg, lines 199-205
RollDmgTerm ==
    /\ fn = "roll_dmg"
    /\ pc = "loop"
    /\ pos <= Len(tokens)
    /\ IsDiceToken(tokens[pos])
    /\ LET token == tokens[pos]
           parsed == parse_dice_only(token)
       IN  IF ~parsed.ok
           THEN /\ pc' = "error"
                /\ ret' = parsed
                /\ UNCHANGED <<pos, components, total, current_sign, draws>>
           ELSE \E rolls \in [1..parsed.value[1] -> roll_single_die(parsed.value[2])] :
                LET subtotal == sum(rolls)
                IN  /\ components' = Append(components,
                           [notation |-> token, rolls |-> rolls, subtotal |-> subtotal])
                    /\ total' = total + current_sign * subtotal
                    /\ draws' = draws + Len(rolls)
                    /\ current_sign' = 1
                    /\ pos' = pos + 1
                    /\ UNCHANGED <<pc, ret>>
    /\ UNCHANGED <<fn, arg, call, tokens, dice_pools, modifier, roll1>>
    /\ UNCHANGED otherVars

\* roll_dmg, lines 206-213
RollDmgInt ==
    /\ fn = "roll_dmg"
    /\ pc = "loop"
    /\ pos <= Len(tokens)
    /\ ~IsSignToken(tokens[pos])
    /\ ~IsDiceToken(tokens[pos])
    /\ LET value == IntToken(tokens[pos])
       IN  IF ~value.ok
           THEN /\ pc' = "error"
                /\ ret' = value
                /\ UNCHANGED <<pos, modifier, total, current_sign>>
           ELSE /\ modifier' = modifier + current_sign * value.value
                /\ total' = total + current_sign * value.value
                /\ current_sign' = 1
                /\ pos' = pos + 1
                /\ UNCHANGED <<pc, ret>>
    /\ UNCHANGED <<fn, arg, call, tokens, dice_pools, components, roll1, draws>>
    /\ UNCHANGED otherVars

\* roll_dmg, lines 215-220
RollDmgReturn ==
    /\ fn = "roll_dmg"
    /\ pc = "loop"
    /\ pos > Len(tokens)
    /\ ret' = Ok(DmgResult(Expression(arg), components, modifier, total))
    /\ pc' = "done"
    /\ UNCHANGED <<fn, arg, call, tokens, pos, dice_pools, components, modifier,
                   total, current_sign, roll1, draws>>
    /\ UNCHANGED otherVars

(***************************************************************************)
(* The expressions given to the evaluators: up to MaxTerms terms, each a   *)
(* run of signs or whitespace followed by a body, and the examples of the  *)
(* docstrings of roll_dice and roll_dmg with smaller dice.                 *)
(***************************************************************************)
Bodies ==
    { <<"1", "d", "2">>,        \* a pool of one die
      <<"2", " ", "d", "2">>,   \* a pool of two dice, written with a space
      <<"D", "3">>,             \* upper case, implicit count
      <<"0", "d", "2">>,        \* count out of range
      <<"3">>,                  \* a flat integer
      <<"x">> }                 \* no dice term and no integer

FirstSigns == { <<>>, <<"-">> }
SignRuns == { <<"+">>, <<"-">>, <<"-", "-">>, <<"-", "+">>, <<"\t">> }

DocExamples ==
    { <<"2", "d", "2", " ", "+", " ", "1", "d", "2", " ", "+", " ", "5">>,
      <<"1", "d", "2", "-", "2", "d", "2", "-", "4">> }

RECURSIVE ExpressionsOf(_, _, _)
ExpressionsOf(first, runs, n) ==
    IF n = 1 THEN {f \o b : f \in first, b \in Bodies}
    ELSE {e \o s \o b : e \in ExpressionsOf(first, runs, n - 1), s \in runs, b \in Bodies}

Expressions ==
    DocExamples \cup UNION {ExpressionsOf(FirstSigns, SignRuns, n) : n \in 1..MaxTerms}

\* the selector does not read the signs: fewer of them
AdvExpressions ==
    DocExamples \cup UNION {ExpressionsOf({<<>>}, {<<"+">>, <<"-">>}, n) : n \in 1..MaxTerms}

Idle ==
    /\ pc = "call"
    /\ call = 1
    /\ tokens = <<>>
    /\ pos = 0
    /\ dice_pools = <<>>
    /\ components = <<>>
    /\ modifier = 0
    /\ total = 0
    /\ current_sign = 1
    /\ roll1 = None
    /\ stats = <<>>
    /\ rng = <<>>
    /\ draws = 0
    /\ ret = None

\* a call of roll_dice or roll_dmg on an expression
InitRoll ==
    /\ fn \in {"roll_dice", "roll_dmg"}
    /\ arg \in Expressions
    /\ Idle

NextRoll ==
    \/ RollDiceEnter
    \/ RollDiceSign
    \/ RollDiceTerm
    \/ RollDiceInt
    \/ RollDiceReturn
    \/ RollDmgEnter
    \/ RollDmgSign
    \/ RollDmgTerm
    \/ RollDmgInt
    \/ RollDmgReturn

SpecRoll == InitRoll /\ [][NextRoll]_vars

\* a call of roll_with_advantage or roll_with_disadvantage on an expression
InitAdv ==
    /\ fn \in {"roll_with_advantage", "roll_with_disadvantage"}
    /\ arg \in AdvExpressions
    /\ Idle

NextAdv ==
    \/ RollDiceEnter
    \/ RollDiceSign
    \/ RollDiceTerm
    \/ RollDiceInt
    \/ RollDiceReturn

SpecAdv == InitAdv /\ [][NextAdv]_vars

(***************************************************************************)
(* parse_roll_command and parse_char_command.                              *)
(***************************************************************************)
\* re.match of '^[+-]\d+$': a sign, then digits to the end
IsSignedInteger(s) ==
    /\ Len(s) > 0
    /\ s[1] \in Sign
    /\ Len(LeadingDigits(Tail(s))) > 0
    /\ AtDollar(Tail(s), Len(LeadingDigits(Tail(s))) + 1)

\* the longest prefix of s without a newline: what a greedy run of "." takes
RECURSIVE LeadingDots(_)
LeadingDots(s) ==
    IF Len(s) > 0 /\ s[1] # "\n" THEN <<s[1]>> \o LeadingDots(Tail(s))
    ELSE <<>>

\* re.match of '^([+-])\s*(\d+)(.*)$': the groups (sign, num, rest), or no
\* match.  The runs are greedy and giving characters back never helps: "$"
\* holds only at the end of the string.
ModMatch(s) ==
    LET after_sign == lstrip(Tail(s))
        num == LeadingDigits(after_sign)
        after_num == SubSeq(after_sign, Len(num) + 1, Len(after_sign))
        rest == LeadingDots(after_num)
    IN  IF /\ Len(s) > 0
           /\ s[1] \in Sign
           /\ Len(num) > 0
           /\ AtDollar(after_num, Len(rest) + 1)
        THEN [match |-> TRUE, sign |-> <<s[1]>>, num |-> num, rest |-> rest]
        ELSE [match |-> FALSE]

\* re.sub(r'(?<![0-9])d', '1d', s, flags=re.IGNORECASE)
ImplicitOne(s) ==
    join([i \in 1..Len(s) |->
            IF s[i] \in {"d", "D"} /\ (i = 1 \/ s[i - 1] \notin Digit)
            THEN <<"1", "d">> ELSE <<s[i]>>])

D20 == <<"1", "d", "2", "0">>

\* RepeatCount that returns a modifier without the default 1d20 before it
RepeatCount_BareModifier(toks) ==
    LET repeat_count == DigitsToInt(strip(toks[1]))
        rest == replace_spaces(join(Tail(toks)))
    IN  IF repeat_count < 1 \/ repeat_count > 20
        THEN Err("Repeat count must be 1-20")
        ELSE IF Len(toks) = 1 THEN Ok(<<repeat_count, D20>>)
        ELSE IF IsSignedInteger(rest) THEN Ok(<<repeat_count, rest>>)
        ELSE IF Contains(lower(rest), "d") THEN Ok(<<repeat_count, rest>>)
        ELSE Err("Invalid notation after count")

\* RepeatCount without the upper limit of the count
RepeatCount_NoUpperLimit(toks) ==
    LET repeat_count == DigitsToInt(strip(toks[1]))
        rest == replace_spaces(join(Tail(toks)))
    IN  IF repeat_count < 1
        THEN Err("Repeat count must be 1-20")
        ELSE IF Len(toks) = 1 THEN Ok(<<repeat_count, D20>>)
        ELSE IF IsSignedInteger(rest) THEN Ok(<<repeat_count, D20 \o rest>>)
        ELSE IF Contains(lower(rest), "d") THEN Ok(<<repeat_count, rest>>)
        ELSE Err("Invalid notation after count")

\* lines 298-323: the first token is a repeat count
RepeatCount(toks) ==
    LET repeat_count == DigitsToInt(strip(toks[1]))
        rest == replace_spaces(join(Tail(toks)))
    IN  IF repeat_count < 1 \/ repeat_count > 20
        THEN Err("Repeat count must be 1-20")
        ELSE IF Len(toks) = 1 THEN Ok(<<repeat_count, D20>>)
        ELSE IF IsSignedInteger(rest) THEN Ok(<<repeat_count, D20 \o rest>>)
        ELSE IF Contains(lower(rest), "d") THEN Ok(<<repeat_count, rest>>)
        ELSE Err("Invalid notation after count")

parse_roll_command(args0) ==
    LET args == strip(args0)
        normalized == replace_spaces(args)
        mod_match == ModMatch(strip(args))
        rest == strip(mod_match.rest)
        toks == split(args)
        first_token == strip(toks[1])
    IN  IF Len(args) = 0 THEN Ok(<<1, D20>>)
        ELSE IF IsSignedInteger(normalized) THEN Ok(<<1, D20 \o normalized>>)
        ELSE IF lstrip(args)[1] \in Sign /\ mod_match.match /\ Len(rest) = 0
             THEN Ok(<<1, D20 \o mod_match.sign \o mod_match.num>>)
        ELSE IF lstrip(args)[1] \in Sign /\ mod_match.match
                /\ Contains(lower(rest), "d")
             THEN Err("Put dice notation before modifier")
        ELSE IF isdigit(first_token) THEN RepeatCount(toks)
        ELSE IF Contains(lower(first_token), "d")
             THEN Ok(<<1, ImplicitOne(normalized)>>)
        ELSE Err("Invalid dice notation")

parse_char_command(args0) ==
    LET args == strip(args0)
        count == int(args)
    IN  IF Len(args) = 0 THEN Ok(1)
        ELSE IF ~count.ok THEN Err("Invalid count")
        ELSE IF count.value < 1 \/ count.value > 20 THEN Err("Invalid count")
        ELSE count

CommandVars == <<call, tokens, pos, dice_pools, components, modifier, total,
                 current_sign, roll1, stats, rng, draws>>

\* a call of parse_roll_command on the args of a command
ParseRollCommand ==
    /\ pc = "call"
    /\ fn = "command"
    /\ fn' = "parse_roll_command"
    /\ ret' = parse_roll_command(arg)
    /\ pc' = IF ret'.ok THEN "done" ELSE "error"
    /\ UNCHANGED arg
    /\ UNCHANGED CommandVars

\* a call of parse_char_command on the args of a command
ParseCharCommand ==
    /\ pc = "call"
    /\ fn = "command"
    /\ fn' = "parse_char_command"
    /\ ret' = parse_char_command(arg)
    /\ pc' = IF ret'.ok THEN "done" ELSE "error"
    /\ UNCHANGED arg
    /\ UNCHANGED CommandVars

\* the characters of the args of a command
ArgsChars == {"0", "2", "d", "D", "+", "-", " ", "\n", "x"}

InitCommand ==
    /\ fn = "command"
    /\ arg \in Str(ArgsChars, MaxArgsLen)
    /\ Idle

NextCommand ==
    \/ ParseRollCommand
    \/ ParseCharCommand

SpecCommand == InitCommand /\ [][NextCommand]_vars

(***************************************************************************)
(* A call of parse_dice_only on a notation.                                *)
(***************************************************************************)
ParseDiceOnly ==
    /\ pc = "call"
    /\ fn = "parse_dice_only"
    /\ ret' = parse_dice_only(arg)
    /\ pc' = IF ret'.ok THEN "done" ELSE "error"
    /\ UNCHANGED <<fn, arg>>
    /\ UNCHANGED CommandVars

\* the characters of a notation
NotationChars == {"0", "1", "d", "D", "x", " "}

InitNotation ==
    /\ fn = "parse_dice_only"
    /\ arg \in Str(NotationChars, MaxNotationLen)
    /\ Idle

SpecNotation == InitNotation /\ [][ParseDiceOnly]_vars

(***************************************************************************)
(* roll_character_stats, one action per turn of its loop.  The outcomes of *)
(* the die source are fixed when the function is entered: rng holds them,  *)
(* and they repeat with period TapePeriod.                                 *)
(***************************************************************************)
NumStats == 6
DicePerStat == 4
StatSides == 6

\* sorted(list), ascending
RECURSIVE Insert(_, _)
Insert(x, list) ==
    IF Len(list) = 0 THEN <<x>>
    ELSE IF x <= list[1] THEN <<x>> \o list
    ELSE <<list[1]>> \o Insert(x, Tail(list))

RECURSIVE sorted(_)
sorted(list) == IF Len(list) = 0 THEN <<>> ELSE Insert(list[1], sorted(Tail(list)))

\* StatTotal dropping every die that shows the lowest value
StatTotal_DropEveryLowest(rolls) ==
    sum(SelectSeq(rolls, LAMBDA r : r # sorted(rolls)[1]))

\* sum(sorted_rolls[1:])
StatTotal(rolls) == sum(Tail(sorted(rolls)))

\* the outcome of the n-th call of roll_single_die(6), n counted from 0
Outcome(n) == rng[(n % Len(rng)) + 1]

StatVars == <<call, tokens, pos, dice_pools, components, modifier, total,
              current_sign, roll1>>

\* lines 250-254: one stat
RollStat ==
    /\ fn = "roll_character_stats"
    /\ pc = "call"
    /\ Len(stats) < NumStats
    /\ LET rolls == [k \in 1..DicePerStat |-> Outcome(draws + k - 1)]
       IN  /\ stats' = Append(stats, <<rolls, StatTotal(rolls)>>)
           /\ draws' = draws + DicePerStat
    /\ UNCHANGED <<fn, arg, pc, rng, ret>>
    /\ UNCHANGED StatVars

\* line 255
StatsReturn ==
    /\ fn = "roll_character_stats"
    /\ pc = "call"
    /\ Len(stats) = NumStats
    /\ ret' = Ok(stats)
    /\ pc' = "done"
    /\ UNCHANGED <<fn, arg, stats, rng, draws>>
    /\ UNCHANGED StatVars

InitStats ==
    /\ fn = "roll_character_stats"
    /\ arg = <<>>
    /\ pc = "call"
    /\ call = 1
    /\ tokens = <<>>
    /\ pos = 0
    /\ dice_pools = <<>>
    /\ components = <<>>
    /\ modifier = 0
    /\ total = 0
    /\ current_sign = 1
    /\ roll1 = None
    /\ stats = <<>>
    /\ rng \in [1..TapePeriod -> roll_single_die(StatSides)]
    /\ draws = 0
    /\ ret = None

NextStats ==
    \/ RollStat
    \/ StatsReturn

SpecStats == InitStats /\ [][NextStats]_vars

(***************************************************************************)
(* RollResult.format, called on the result roll_dice returned.  The text   *)
(* is a sequence of characters like every str.                             *)
(***************************************************************************)
\* str.upper()
upper(s) == [i \in 1..Len(s) |-> IF s[i] = "d" THEN "D" ELSE s[i]]

DigitChar(n) ==
    CASE n = 0 -> "0" [] n = 1 -> "1" [] n = 2 -> "2" [] n = 3 -> "3"
      [] n = 4 -> "4" [] n = 5 -> "5" [] n = 6 -> "6" [] n = 7 -> "7"
      [] n = 8 -> "8" [] n = 9 -> "9"

\* str(n) of an integer
RECURSIVE NatToStr(_)
NatToStr(n) ==
    IF n < 10 THEN <<DigitChar(n)>>
    ELSE NatToStr(n \div 10) \o <<DigitChar(n % 10)>>

IntToStr(n) == IF n < 0 THEN <<"-">> \o NatToStr(-n) ELSE NatToStr(n)

\* sep.join(list)
RECURSIVE JoinWith(_, _)
JoinWith(list, sep) ==
    IF Len(list) = 0 THEN <<>>
    ELSE IF Len(list) = 1 THEN list[1]
    ELSE list[1] \o sep \o JoinWith(Tail(list), sep)

Comma == <<",", " ">>
Bold(s) == <<"*", "*">> \o s \o <<"*", "*">>
Paren(s) == <<"(">> \o s \o <<")">>
Nat1 == Bold(<<"N", "a", "t", "1">>)
Bold20 == Bold(<<"2", "0">>)
ResultLabel == <<" ", "R", "e", "s", "u", "l", "t", " ", "-", " ">>
Equals == <<" ", "=", " ">>

\* _get_sides with every die taken for a d20
get_sides_Always20(notation) == 20

\* _get_sides: re.search of "d" and digits in the lowered notation, 0 without
get_sides(notation) ==
    LET s == lower(notation)
        at == {i \in 1..(Len(s) - 1) : s[i] = "d" /\ s[i + 1] \in Digit}
        first == CHOOSE i \in at : \A j \in at : i <= j
    IN  IF at = {} THEN 0
        ELSE DigitsToInt(LeadingDigits(SubSeq(s, first + 1, Len(s))))

\* lines 37-50: the text of a result whose modifier is 0
FormatPlain(self) ==
    JoinWith(
        [p \in 1..Len(self.dice_pools) |->
            LET notation == self.dice_pools[p].notation
                rolls == self.dice_pools[p].rolls
                sides == get_sides(notation)
                formatted_rolls ==
                    [i \in 1..Len(rolls) |->
                        IF sides = 20 /\ rolls[i] = 20 THEN Bold20
                        ELSE IF sides = 20 /\ rolls[i] = 1 THEN Nat1
                        ELSE IntToStr(rolls[i])]
            IN  upper(notation) \o ResultLabel \o Paren(JoinWith(formatted_rolls, Comma))],
        <<"\n">>)

\* lines 52-80: the text of a result with a modifier
FormatModified(self) ==
    LET mod_sign == IF self.modifier > 0 THEN <<"+">> ELSE <<>>
        mod_str == mod_sign \o IntToStr(self.modifier)
    IN  JoinWith(
        [p \in 1..Len(self.dice_pools) |->
            LET notation == self.dice_pools[p].notation
                base_rolls == self.dice_pools[p].rolls
                sides == get_sides(notation)
                modified == self.modified_rolls[p]
                base_parts ==
                    [i \in 1..Len(base_rolls) |->
                        IF sides = 20 /\ base_rolls[i] = 20 THEN Bold20
                        ELSE IF sides = 20 /\ base_rolls[i] = 1 THEN Nat1
                        ELSE IntToStr(base_rolls[i])]
                calc_parts ==
                    [i \in 1..Len(base_rolls) |->
                        IF sides = 20 /\ base_rolls[i] = 20 THEN Paren(Bold20 \o mod_str)
                        ELSE IF sides = 20 /\ base_rolls[i] = 1 THEN Paren(Nat1)
                        ELSE Paren(IntToStr(base_rolls[i]) \o mod_str)]
                result_parts ==
                    [i \in 1..Len(base_rolls) |->
                        IF sides = 20 /\ base_rolls[i] = 20 THEN Bold(IntToStr(modified[i]))
                        ELSE IF sides = 20 /\ base_rolls[i] = 1 THEN Nat1
                        ELSE IntToStr(modified[i])]
            IN  upper(notation) \o ResultLabel \o Paren(JoinWith(base_parts, Comma))
                \o Equals \o JoinWith(calc_parts, <<" ">>)
                \o Equals \o Paren(JoinWith(result_parts, Comma))],
        <<"\n">>)

\* RollResult.format
format(self) == IF self.modifier = 0 THEN FormatPlain(self) ELSE FormatModified(self)

\* result.format() on the RollResult that roll_dice returned
Format ==
    /\ fn = "roll_dice"
    /\ pc = "done"
    /\ ret' = Ok(format(ret.value))
    /\ pc' = "formatted"
    /\ UNCHANGED <<fn, arg, call, tokens, pos, dice_pools, components, modifier,
                   total, current_sign, roll1, draws>>
    /\ UNCHANGED otherVars

\* the expressions rolled and formatted: d20 pools of one and two dice, with
\* and without a modifier, beside dice of 2 and 21 sides
FormatExpressions ==
    { <<"d", "2", "0">>,
      <<"2", "d", "2", "0">>,
      <<"2", "D", "2", "0", "+", "1", "9">>,
      <<"2", "d", "2", "0", "-", "1", "9">>,
      <<"d", "0", "2", "0", "+", "3">>,
      <<"1", "d", "2", "1">>,
      <<"1", "d", "2", "1", "-", "1">>,
      <<"2", "d", "2", "+", "d", "2", "0">>,
      <<"1", "d", "2", "1", "+", "D", "2", "0", "+", "5">>,
      <<"1", "d", "2", "+", "1", "d", "2", "1", "-", "3">>,
      <<"5">> }

InitFormat ==
    /\ fn = "roll_dice"
    /\ arg \in FormatExpressions
    /\ Idle

NextFormat ==
    \/ RollDiceEnter
    \/ RollDiceSign
    \/ RollDiceTerm
    \/ RollDiceInt
    \/ RollDiceReturn
    \/ Format

SpecFormat == InitFormat /\ [][NextFormat]_vars

(***************************************************************************)
(* add_chunked_fields of bot.py.  The embed is the sequence of its fields, *)
(* a result is a str, and the value of a field is the str the join makes.  *)
(***************************************************************************)
\* the most results in a list
MaxResults == 3

\* line 39: the length a chunk is kept within
FieldBudget == 1020

\* embed.add_field(name, value, inline)
add_field(embed, name, value, inline) ==
    Append(embed, [name |-> name, value |-> value, inline |-> inline])

\* lines 37-49: the loop from result i on; lines 51-54: the rest after it
RECURSIVE ChunkLoop(_, _, _, _, _, _, _)
ChunkLoop(embed, results, field_name, i, current_chunk, current_length, field_count) ==
    LET name == IF field_count = 0 THEN field_name ELSE <<>>
    IN  IF i > Len(results)
        THEN IF current_chunk # <<>>
             THEN add_field(embed, name, JoinWith(current_chunk, <<"\n">>), FALSE)
             ELSE embed
        ELSE LET result == results[i]
                 result_length == Len(result) + 1
             IN  IF current_length + result_length > FieldBudget
                 THEN IF current_chunk # <<>>
                      THEN ChunkLoop(add_field(embed, name,
                                               JoinWith(current_chunk, <<"\n">>), FALSE),
                                     results, field_name, i + 1,
                                     <<result>>, result_length, field_count + 1)
                      ELSE ChunkLoop(embed, results, field_name, i + 1,
                                     <<result>>, result_length, field_count)
                 ELSE ChunkLoop(embed, results, field_name, i + 1,
                                Append(current_chunk, result),
                                current_length + result_length, field_count)

\* add_chunked_fields: the embed after the call
add_chunked_fields(embed, results, field_name) ==
    ChunkLoop(embed, results, field_name, 1, <<>>, 0, 0)

\* a call of add_chunked_fields on a new embed, with the default field name
AddChunkedFields ==
    /\ pc = "call"
    /\ fn = "add_chunked_fields"
    /\ ret' = Ok(add_chunked_fields(<<>>, arg, <<>>))
    /\ pc' = "done"
    /\ UNCHANGED <<fn, arg>>
    /\ UNCHANGED CommandVars

\* a str of n characters
Text(n) == [i \in 1..n |-> "x"]

\* the lengths of the results: short ones, halves of the budget, and the
\* lengths about the budget and about the limit of a field
ResultLengths == {0, 1, 12, 509, 510, 1007, 1019, 1020, 1021, 1025}

Results == {Text(n) : n \in ResultLengths}

InitChunk ==
    /\ fn = "add_chunked_fields"
    /\ arg \in UNION {[1..n -> Results] : n \in 0..MaxResults}
    /\ Idle

SpecChunk == InitChunk /\ [][AddChunkedFields]_vars

(***************************************************************************)
(* What the properties of the evaluators read off an expression: the       *)
(* positions of its dice terms and of its flat integers among the tokens,  *)
(* and the sign in force at a position.                                    *)
(***************************************************************************)
Positions(toks, Test(_)) ==
    SelectSeq([k \in 1..Len(toks) |-> k], LAMBDA k : Test(toks[k]))

DicePositions(toks) == Positions(toks, IsDiceToken)

IsIntToken(token) == ~IsSignToken(token) /\ ~IsDiceToken(token)
IntPositions(toks) == Positions(toks, IsIntToken)

\* -1 exactly when the token just before position k is '-'
SignBefore(toks, k) == IF k > 1 /\ toks[k - 1] = <<"-">> THEN -1 ELSE 1

\* the net sum of the signed flat integers of the expression
SignedIntegers(toks) ==
    sum([n \in 1..Len(IntPositions(toks)) |->
            SignBefore(toks, IntPositions(toks)[n])
            * DigitsToInt(toks[IntPositions(toks)[n]])])

Returned(f) == fn = f /\ pc = "done"

\* C1 (as claimed): when roll_dice or roll_dmg raises an error, no die has
\* been drawn from the random die source.
C1_NoDrawBeforeError ==
    (fn \in {"roll_dice", "roll_dmg"} /\ pc = "error") => draws = 0

\* C2: the result of roll_dmg has one component per dice term, each subtotal
\* the sum of its raw rolls, modifier the sum of the signed flat integers, and
\* total the sum of sign * subtotal over the dice terms plus modifier, the
\* sign of a term being -1 exactly when the token just before it is '-'.
C2_DmgTotal ==
    Returned("roll_dmg") =>
        LET toks == Tokenize(arg)
            at == DicePositions(toks)
            r == ret.value
        IN  /\ Len(r.components) = Len(at)
            /\ \A i \in 1..Len(at) :
                  /\ r.components[i].notation = toks[at[i]]
                  /\ r.components[i].subtotal = sum(r.components[i].rolls)
            /\ r.modifier = SignedIntegers(toks)
            /\ r.total = sum([i \in 1..Len(at) |->
                                SignBefore(toks, at[i]) * r.components[i].subtotal])
                         + r.modifier

\* roll_dmg has returned for an expression with a dice term after a run of
\* two '-' tokens and a flat integer: the term is subtracted once
C2_Witness ==
    /\ Returned("roll_dmg")
    /\ ret.value.modifier # 0
    /\ \E k \in 3..Len(tokens) :
          /\ IsDiceToken(tokens[k])
          /\ tokens[k - 1] = <<"-">>
          /\ tokens[k - 2] = <<"-">>
          /\ ret.value.total = ret.value.modifier - ret.value.components[1].subtotal

\* C3: the result of roll_dice keeps one pool per dice term of the expression,
\* whatever its sign, each with as many rolls as its count; modifier is the
\* net sum of the signed flat integers; and every modified roll is the raw
\* roll plus that one modifier.
C3_PerDieModifier ==
    Returned("roll_dice") =>
        LET toks == Tokenize(arg)
            at == DicePositions(toks)
            r == ret.value
        IN  /\ Len(r.dice_pools) = Len(at)
            /\ Len(r.modified_rolls) = Len(at)
            /\ r.modifier = SignedIntegers(toks)
            /\ \A i \in 1..Len(at) :
                  /\ r.dice_pools[i].notation = toks[at[i]]
                  /\ Len(r.dice_pools[i].rolls) = parse_dice_only(toks[at[i]]).value[1]
                  /\ Len(r.modified_rolls[i]) = Len(r.dice_pools[i].rolls)
                  /\ \A j \in 1..Len(r.dice_pools[i].rolls) :
                        r.modified_rolls[i][j] = r.dice_pools[i].rolls[j] + r.modifier

\* roll_dice has returned two pools, the second after a '-', of three dice in
\* all, and a modifier that is not zero
C3_Witness ==
    /\ Returned("roll_dice")
    /\ Len(ret.value.dice_pools) = 2
    /\ Len(ret.value.dice_pools[2].rolls) = 2
    /\ SignBefore(tokens, DicePositions(tokens)[2]) = -1
    /\ ret.value.modifier = -4
    /\ ret.value.modified_rolls[2][2] = ret.value.dice_pools[2].rolls[2] - 4

\* the grand total of a roll: every raw roll of every pool plus the modifier
TotalOf(roll) ==
    sum([i \in 1..Len(roll.dice_pools) |->
            sum(roll.dice_pools[i].rolls)
            + Len(roll.dice_pools[i].rolls) * roll.modifier])

DiceOf(roll) == sum([i \in 1..Len(roll.dice_pools) |-> Len(roll.dice_pools[i].rolls)])

\* C4: roll_with_advantage returns both rolls of roll_dice, each of freshly
\* drawn dice, the maximum of their grand totals, and as chosen roll the first
\* when totalA >= totalB and the second otherwise; roll_with_disadvantage the
\* minimum, and the first when totalA <= totalB; the chosen roll's grand total
\* is the returned total.
C4_Selection ==
    (pc = "done" /\ fn \in {"roll_with_advantage", "roll_with_disadvantage"}) =>
        LET a == ret.value[1]
            b == ret.value[2]
            chosen == ret.value[3]
            best == ret.value[4]
        IN  /\ a = roll1
            /\ b = RollResult(Expression(arg), dice_pools, modifier)
            /\ draws = DiceOf(a) + DiceOf(b)
            /\ TotalOf(chosen) = best
            /\ fn = "roll_with_advantage" =>
                  /\ best >= TotalOf(a) /\ best >= TotalOf(b)
                  /\ chosen = (IF TotalOf(a) >= TotalOf(b) THEN a ELSE b)
            /\ fn = "roll_with_disadvantage" =>
                  /\ best =< TotalOf(a) /\ best =< TotalOf(b)
                  /\ chosen = (IF TotalOf(a) =< TotalOf(b) THEN a ELSE b)

\* roll_with_advantage has returned two different rolls of equal grand total,
\* and the chosen one is the first
C4_Witness ==
    /\ Returned("roll_with_advantage")
    /\ ret.value[1] # ret.value[2]
    /\ TotalOf(ret.value[1]) = TotalOf(ret.value[2])
    /\ ret.value[3] = ret.value[1]
    /\ ret.value[1].modifier # 0

(***************************************************************************)
(* What the properties of the command parsers read off the args.           *)
(***************************************************************************)
\* the args without the whitespace around them, and without any whitespace
Trimmed(s) == strip(s)
NoWhitespace(s) == SelectSeq(s, LAMBDA c : c \notin Space)

\* a sign followed by digits and nothing else
PureSignedInteger(s) ==
    Len(s) > 1 /\ s[1] \in Sign /\ \A i \in 2..Len(s) : s[i] \in Digit

\* digits and nothing else
BareInteger(s) == Len(s) > 0 /\ \A i \in 1..Len(s) : s[i] \in Digit

HasD(s) == \E i \in 1..Len(s) : s[i] \in {"d", "D"}

\* the whitespace-delimited tokens of the args
ArgTokens == split(arg)
FirstIsCount ==
    /\ Len(ArgTokens) > 0
    /\ BareInteger(ArgTokens[1])
    /\ DigitsToInt(ArgTokens[1]) \in 1..20
AfterFirst == join(Tail(ArgTokens))

Parsed(f) == fn = f /\ pc \in {"done", "error"}

\* C5: without dice notation parse_roll_command returns (1, "1d20") for
\* empty or whitespace-only args, (1, "1d20" and the signed integer) for a
\* pure signed integer, (N, "1d20") for a lone integer N of 1..20, and
\* (N, "1d20" and the modifier) for N followed by a pure signed integer.
C5_Defaults ==
    Parsed("parse_roll_command") =>
        /\ Len(Trimmed(arg)) = 0 => ret = Ok(<<1, D20>>)
        /\ PureSignedInteger(Trimmed(arg)) => ret = Ok(<<1, D20 \o Trimmed(arg)>>)
        /\ (FirstIsCount /\ Len(ArgTokens) = 1) =>
              ret = Ok(<<DigitsToInt(ArgTokens[1]), D20>>)
        /\ (FirstIsCount /\ PureSignedInteger(AfterFirst)) =>
              ret = Ok(<<DigitsToInt(ArgTokens[1]), D20 \o AfterFirst>>)

\* parse_roll_command has returned two rolls of 1d20 with a modifier, given
\* as the count, whitespace, a sign, whitespace, and a digit
C5_Witness ==
    /\ Parsed("parse_roll_command")
    /\ Len(arg) = 5
    /\ Len(ArgTokens) = 3
    /\ ret = Ok(<<2, D20 \o <<"-", "2">> >>)

\* the claimed normal form: no whitespace, and a count 1 before every d that
\* no digit precedes
RECURSIVE CountBeforeEveryD(_, _)
CountBeforeEveryD(s, after_digit) ==
    IF Len(s) = 0 THEN <<>>
    ELSE (IF s[1] \in {"d", "D"} /\ ~after_digit THEN <<"1", s[1]>> ELSE <<s[1]>>)
         \o CountBeforeEveryD(Tail(s), s[1] \in Digit)

\* C6 (as claimed): args whose first token contains 'd' (any case) give
\* (1, the args without whitespace, a count 1 before every d that no digit
\* precedes); a count N of 1..20 followed by tokens that contain 'd' gives
\* (N, those tokens joined).  Letter case is not compared.
C6_DiceNotation ==
    Parsed("parse_roll_command") =>
        /\ (Len(ArgTokens) > 0 /\ HasD(ArgTokens[1])) =>
              /\ ret.ok
              /\ ret.value[1] = 1
              /\ lower(ret.value[2]) = lower(CountBeforeEveryD(NoWhitespace(arg), FALSE))
        /\ (FirstIsCount /\ HasD(AfterFirst)) =>
              ret = Ok(<<DigitsToInt(ArgTokens[1]), AfterFirst>>)

\* integers as int() reads them: an optional sign, then digits
Integer(s) == BareInteger(s) \/ PureSignedInteger(s)
IntegerValue(s) ==
    IF s[1] = "-" THEN -DigitsToInt(Tail(s))
    ELSE IF s[1] = "+" THEN DigitsToInt(Tail(s))
    ELSE DigitsToInt(s)

\* C7: every repeat count returned is in 1..20: parse_roll_command fails when
\* its first token is a bare integer outside 1..20; parse_char_command returns
\* 1 for empty args, the trimmed integer when it is in 1..20, and fails
\* otherwise.
C7_RepeatCountRange ==
    /\ Parsed("parse_roll_command") =>
          /\ ret.ok => ret.value[1] \in 1..20
          /\ (/\ Len(ArgTokens) > 0
              /\ BareInteger(ArgTokens[1])
              /\ DigitsToInt(ArgTokens[1]) \notin 1..20) => ~ret.ok
    /\ Parsed("parse_char_command") =>
          IF Len(Trimmed(arg)) = 0 THEN ret = Ok(1)
          ELSE IF Integer(Trimmed(arg)) /\ IntegerValue(Trimmed(arg)) \in 1..20
               THEN ret = Ok(IntegerValue(Trimmed(arg)))
          ELSE ~ret.ok

\* parse_roll_command has failed on a count of 22 followed by dice notation
C7_Witness ==
    /\ Parsed("parse_roll_command")
    /\ Len(ArgTokens) = 2
    /\ ArgTokens[1] = <<"2", "2">>
    /\ HasD(ArgTokens[2])
    /\ ret = Err("Repeat count must be 1-20")

\* C8 (as claimed): parse_roll_command fails on every args that is a sign,
\* then digits, then more text that contains 'd'.
C8_ModifierBeforeDice ==
    Parsed("parse_roll_command") =>
        LET s == Trimmed(arg)
            digits == LeadingDigits(Tail(s))
            more == SubSeq(s, Len(digits) + 2, Len(s))
        IN  (/\ Len(s) > 0
             /\ s[1] \in Sign
             /\ Len(digits) > 0
             /\ Contains(more, "d")) => ~ret.ok

(***************************************************************************)
(* What the properties of parse_dice_only read off a notation.             *)
(***************************************************************************)
\* the notation as it is matched: lower case, no whitespace around it
Matched == lower(strip(arg))

\* the place of the "d" when the notation is digits-optional, "d", digits
DPlace ==
    {k \in 1..Len(Matched) :
        /\ Matched[k] = "d"
        /\ k < Len(Matched)
        /\ \A i \in 1..Len(Matched) : i # k => Matched[i] \in Digit}

CountOf(k) == IF k = 1 THEN 1 ELSE DigitsToInt(SubSeq(Matched, 1, k - 1))
SidesOf(k) == DigitsToInt(SubSeq(Matched, k + 1, Len(Matched)))

\* C9: parse_dice_only returns (count, sides) exactly when the notation is
\* digits-optional, "d", digits, with count (1 when missing) in 1..100 and
\* sides in 1..1000, and fails for every other notation.
C9_DiceRanges ==
    Parsed("parse_dice_only") =>
        /\ ret.ok =>
              /\ ret.value[1] \in 1..100
              /\ ret.value[2] \in 1..1000
        /\ \A k \in DPlace :
              IF CountOf(k) \in 1..100 /\ SidesOf(k) \in 1..1000
              THEN ret = Ok(<<CountOf(k), SidesOf(k)>>)
              ELSE ~ret.ok
        /\ DPlace = {} => ~ret.ok

\* parse_dice_only has returned one die of 1000 sides for a notation without
\* a count
C9_Witness ==
    /\ Parsed("parse_dice_only")
    /\ arg = <<"d", "1", "0", "0", "0">>
    /\ ret = Ok(<<1, 1000>>)

(***************************************************************************)
(* What the properties of roll_character_stats read off the stats.         *)
(***************************************************************************)
Lowest(rolls) == CHOOSE m \in {rolls[k] : k \in 1..Len(rolls)} :
                    \A k \in 1..Len(rolls) : m <= rolls[k]

\* C10: roll_character_stats returns exactly 6 stats; each holds the four d6
\* values in the order they were rolled and, as total, the sum of the three
\* highest of them: the lowest is dropped once; each total is in 3..18.
C10_CharacterStats ==
    Returned("roll_character_stats") =>
        /\ Len(ret.value) = 6
        /\ draws = 24
        /\ \A i \in 1..Len(ret.value) :
              LET rolls == ret.value[i][1]
                  stat_total == ret.value[i][2]
              IN  /\ Len(rolls) = 4
                  /\ \A k \in 1..4 :
                        /\ rolls[k] \in 1..6
                        /\ rolls[k] = Outcome(4 * (i - 1) + k - 1)
                  /\ stat_total = sum(rolls) - Lowest(rolls)
                  /\ stat_total \in 3..18

\* roll_character_stats has returned a stat whose lowest value was rolled
\* twice, after a higher one: it is dropped once; and a stat of four sixes
C10_Witness ==
    /\ Returned("roll_character_stats")
    /\ ret.value[1] = <<<<3, 1, 1, 5>>, 9>>
    /\ ret.value[2][1] # ret.value[1][1]
    /\ \E i \in 1..6 : ret.value[i][1][1] = 6

(***************************************************************************)
(* What the properties of RollResult.format read off the text.             *)
(***************************************************************************)
\* the pieces of s between the occurrences of sep, from the piece that
\* starts at start, with the text before i already searched
RECURSIVE SplitAt(_, _, _, _)
SplitAt(s, sep, start, i) ==
    IF i + Len(sep) - 1 > Len(s) THEN <<SubSeq(s, start, Len(s))>>
    ELSE IF SubSeq(s, i, i + Len(sep) - 1) = sep
         THEN <<SubSeq(s, start, i - 1)>> \o SplitAt(s, sep, i + Len(sep), i + Len(sep))
         ELSE SplitAt(s, sep, start, i + 1)

SplitOn(s, sep) == SplitAt(s, sep, 1, 1)

\* the text within the last pair of parentheses of a line
LastGroup(line) ==
    LET open == CHOOSE i \in 1..Len(line) :
                    line[i] = "(" /\ \A j \in (i + 1)..Len(line) : line[j] # "("
    IN  SubSeq(line, open + 1, Len(line) - 1)

\* the dice as a line shows them: the entries of its last group
ShownDice(line) == SplitOn(LastGroup(line), <<",", " ">>)

\* the calculations of a line of a result with a modifier
ShownCalcs(line) == SplitOn(SplitOn(line, <<" ", "=", " ">>)[2], <<" ">>)

\* the sides of a pool, as parse_dice_only read them when it was rolled
SidesOfPool(pool) == parse_dice_only(pool.notation).value[2]

Formatted == fn = "roll_dice" /\ pc = "formatted" /\ Len(dice_pools) > 0

\* C11: the text has one line per pool; in a pool of 20-sided dice a raw 1 is
\* shown as Nat1, without the modifier, with and without a modifier on the
\* result, and a raw 20 is shown in bold with the modifier applied; in every
\* other pool each die is shown as its plain modified number.
C11_NatMarking ==
    Formatted =>
        LET lines == SplitOn(ret.value, <<"\n">>)
        IN  /\ Len(lines) = Len(dice_pools)
            /\ \A p \in 1..Len(dice_pools) :
                  LET rolls == dice_pools[p].rolls
                      d20 == SidesOfPool(dice_pools[p]) = 20
                  IN  /\ Len(ShownDice(lines[p])) = Len(rolls)
                      /\ \A i \in 1..Len(rolls) :
                            /\ (d20 /\ rolls[i] = 1) =>
                                  /\ ShownDice(lines[p])[i]
                                        = <<"*", "*", "N", "a", "t", "1", "*", "*">>
                                  /\ modifier # 0 =>
                                        ShownCalcs(lines[p])[i]
                                           = <<"(", "*", "*", "N", "a", "t", "1", "*", "*", ")">>
                            /\ (d20 /\ rolls[i] = 20) =>
                                  ShownDice(lines[p])[i]
                                     = <<"*", "*">> \o IntToStr(20 + modifier) \o <<"*", "*">>
                            /\ (~d20 \/ rolls[i] \notin {1, 20}) =>
                                  ShownDice(lines[p])[i] = IntToStr(rolls[i] + modifier)

\* a result with a modifier has been formatted whose first pool, of d21, shows
\* a raw 20 as a plain number and whose second pool, of d20, shows a raw 1
C11_Witness ==
    /\ Formatted
    /\ modifier = 5
    /\ Len(dice_pools) = 2
    /\ SidesOfPool(dice_pools[1]) = 21
    /\ dice_pools[1].rolls = <<20>>
    /\ dice_pools[2].rolls = <<1>>
    /\ ShownDice(SplitOn(ret.value, <<"\n">>)[1]) = << <<"2", "5">> >>
    /\ ShownDice(SplitOn(ret.value, <<"\n">>)[2])
          = << <<"*", "*", "N", "a", "t", "1", "*", "*">> >>

(***************************************************************************)
(* What the properties of add_chunked_fields read off the embed.           *)
(***************************************************************************)
Chunked == fn = "add_chunked_fields" /\ pc = "done"

\* C12: after add_chunked_fields, the value of every field of the embed has
\* at most FieldBudget characters, whatever the results are.
C12_FieldBudget ==
    Chunked => \A f \in 1..Len(ret.value) : Len(ret.value[f].value) <= FieldBudget

=============================================================================
